---- MODULE Spec2Model ----
(***************************************************************************)
(* Model of the DENSITY benchmark orchestrator (package bench): Run,       *)
(* startHogs, stopHogs, countAlive and estimateSavedMiB, together with the *)
(* operating-system processes they spawn, signal, kill and reap.           *)
(*                                                                         *)
(* Two specifications share the variables:                                 *)
(*   Spec      one call of bench.Run, with an external cancellation of its *)
(*             context and workload processes that may exit by themselves; *)
(*   SpecStop  stopHogs called twice in a row on an arbitrary slice of     *)
(*             handles (nil, never started, running, exited, waited).      *)
(***************************************************************************)
EXTENDS Integers, Sequences, FiniteSets, TLC

(* ------------------------------ bounds --------------------------------- *)

\* longest Config.Instances sequence the model tries
MaxLen == 2
\* largest instance count in Config.Instances
MaxN == 2
\* longest handle slice passed to stopHogs by SpecStop
MaxHandles == 2
\* largest KSM page counter handed to estimateSavedMiB
MaxPages == 6
\* largest workload id handed to the dirty-index computation
MaxId == 2
\* most signals sent to one workload process
MaxSignals == 2
\* most re-dirty cycles of one workload process
MaxCycles == 2
\* largest tick count a read of the scanner's CPU time returns
MaxTicks == 2

(* -------------------------- program constants -------------------------- *)

\* deadline := time.Now().Add(5 * time.Second), in milliseconds
TeardownBoundMs == 5000
\* time.Sleep(100 * time.Millisecond), in milliseconds
PollIntervalMs == 100
\* os.Getpagesize()
PageSize == 4096
\* 1024.0 * 1024.0
MiB == 1048576
\* cfg.MemMiB = 256, the default of Run
DefaultMemMiB == 256
\* math.MaxInt32
MaxInt32 == 2147483647
\* make(chan os.Signal, 2)
SigChCap == 2
\* the multiplier of the id in the dirty index
MixId == 1315423911
\* the multiplier of j in the dirty index, 2654435761, written as
\* MixJHi * Limb + MixJLo
MixJHi == 40503
MixJLo == 31153
Limb == 65536
\* 0xBADC0FFEE of applyDirty, as 0xB, 0xADC0, 0xFFEE
MarkHi == 11
MarkMid == 44480
MarkLo == 65518
\* time.Millisecond and time.Second, in nanoseconds (time.Duration)
Millisecond == 1000000
Second == 1000000000

(* ------------------------------ state ---------------------------------- *)

VARIABLES
  cfg,      \* Config as passed to Run
  ctxDone,  \* ctx.Done() is closed
  pc,       \* position of the orchestrator goroutine
  idx,      \* position of "for _, n := range cfg.Instances" (1-based)
  i,        \* loop variable of startHogs
  cmds,     \* the handle slice of the current batch / argument of stopHogs
  k,        \* loop variable of the handle loops of stopHogs (1-based)
  elapsed,  \* milliseconds since stopHogs computed its deadline
  ret,      \* where the running stopHogs call returns to
  sel,      \* case taken by the warmup select: "none" while blocked, "ctx"
            \* or "timer" when woken, "ctx_ready" when ctx was done on entry
  startErr, \* error returned by cmd.Start inside startHogs
  step,     \* StepResult under construction
  res,      \* *RunResult
  err,      \* error returned by Run
  procs,    \* operating-system processes, indexed by pid
  calls,    \* SpecStop: number of stopHogs calls made so far
  snap,     \* SpecStop: procs as they were when the first call returned
  fs,       \* what Run has created on disk: "outdir", "json", "md"
  fn,       \* the pure functions: the call under way, [op, in, out]
  hog,      \* one workload process running cmdHog
  ksmd,     \* whether a process named ksmd exists: "absent" or "present"
  ticks     \* what the two readKsmdTicks calls of the current step returned

vars == <<cfg, ctxDone, pc, idx, i, cmds, k, elapsed, ret, sel, startErr,
          step, res, err, procs, calls, snap, fs, fn, hog, ksmd, ticks>>

(* ------------------------------ values --------------------------------- *)

\* a handle *exec.Cmd: nilCmd is c == nil, pid = 0 is c.Process == nil,
\* ps is c.ProcessState ("nil" unless cmd.Wait has been called)
Handle(p) == [nilCmd |-> FALSE, pid |-> p, ps |-> "nil"]

\* an operating-system process: st is none/running/zombie/reaped, term is
\* a SIGTERM delivered to the running process, obeys tells whether it exits
\* on SIGTERM, step is the Run step that spawned it
NewProc(ob, s) ==
  [st |-> "running", term |-> FALSE, obeys |-> ob, step |-> s]

NoProc == [st |-> "none", term |-> FALSE, obeys |-> FALSE, step |-> 0]

\* readings ksm.Status can deliver to Run: the failed read (nil map) and a
\* consistent pair of counters
NilStats == [ok |-> FALSE, shared |-> 0, sharing |-> 0]

KsmReadings ==
  { NilStats,
    [ok |-> TRUE, shared |-> 1, sharing |-> 3] }

Zero == [num |-> 0, den |-> MiB]

\* a nil map of memory counters
NilMem == [ok |-> FALSE, hogs |-> 0]

\* ksm.ReadMemInfo: the memory counters of the host, which reflect the
\* workload processes that hold their buffer at the time of the read
ReadMemInfo(ps) ==
  [ok |-> TRUE,
   hogs |-> Cardinality({p \in 1..Len(ps) : ps[p].st = "running"})]

\* readKsmdTicks returning (0, err)
FailedRead == [ok |-> FALSE, v |-> 0]

\* readKsmdTicks, lines 341-358: (0, err) when no process named ksmd is
\* found or its stat file cannot be read or parsed, else (utime + stime, nil)
TickReads(src) ==
  IF src = "present"
    THEN {FailedRead} \cup [ok : {TRUE}, v : 0..MaxTicks]
    ELSE {FailedRead}

NoTicks == [before |-> FailedRead, after |-> FailedRead]

\* Run, lines 160-162: step.KsmdTicksDelta from the two values read
ticksDelta(ksmdBefore, ksmdAfter) ==
  IF ksmdBefore > 0 /\ ksmdAfter > 0 /\ ksmdAfter >= ksmdBefore
    THEN ksmdAfter - ksmdBefore
    ELSE 0

NewStep(n) ==
  [N |-> n, Alive |-> 0, MemMiB |-> 0, Notes |-> "", PreMemKB |-> NilMem,
   PostKSM |-> NilStats, EstimatedSavedMiB |-> Zero, KsmdTicksDelta |-> 0]

\* Run, lines 95-97: the memory size the run works with
EffectiveMemMiB(c) == IF c.MemMiB <= 0 THEN DefaultMemMiB ELSE c.MemMiB

NilResult == [isNil |-> TRUE, Steps |-> <<>>]

\* no pure function is being called, no workload process is modelled
NoCall == [op |-> "none"]

NoHog == [pc |-> "none"]

(* --------------------- os.Process, as the code uses it ------------------ *)

\* Signal without the "process already finished" check
SignalOKStale(ps, h) ==
  /\ ~h.nilCmd
  /\ h.pid > 0
  /\ ps[h.pid].st # "none"

\* c.Process.Signal(sig) returns nil: the process was started and has not
\* been waited for; a zombie still accepts signals
SignalOK(ps, h) ==
  /\ ~h.nilCmd
  /\ h.pid > 0
  /\ ps[h.pid].st \in {"running", "zombie"}

\* c.Process.Signal(syscall.SIGTERM)
SignalTerm(ps, p) ==
  IF ps[p].st = "running" THEN [ps EXCEPT ![p].term = TRUE] ELSE ps

\* c.Process.Kill()
Kill(ps, p) ==
  IF ps[p].st = "running"
    THEN [ps EXCEPT ![p].st = "zombie", ![p].term = FALSE]
    ELSE ps

\* Wait left out: nothing is reaped
WaitNoReap(ps, p) == ps

\* "_, _ = c.Process.Wait()" once the process has ended: reaps a zombie,
\* fails on a process that has been waited for
Wait(ps, p) ==
  IF ps[p].st = "zombie"
    THEN [ps EXCEPT ![p].st = "reaped"]
    ELSE ps

\* c == nil || c.Process == nil
Skipped(h) == h.nilCmd \/ h.pid = 0

(* --------------------------- pure functions ----------------------------- *)

\* countAlive: number of handles whose Signal(0) succeeds
RECURSIVE CountFrom(_, _, _)
CountFrom(ps, hs, j) ==
  IF j > Len(hs) THEN 0
  ELSE (IF ~Skipped(hs[j]) /\ SignalOK(ps, hs[j]) THEN 1 ELSE 0)
       + CountFrom(ps, hs, j + 1)

countAlive(ps, hs) == CountFrom(ps, hs, 1)

\* the estimate without the "sharing < shared" test
estimateSavedMiBNoClamp(ksmStats) ==
  IF ~ksmStats.ok THEN Zero
  ELSE IF ksmStats.shared <= 0 \/ ksmStats.sharing <= 0 THEN Zero
  ELSE [num |-> (ksmStats.sharing - ksmStats.shared) * PageSize, den |-> MiB]

\* estimateSavedMiB, as the exact fraction num / den
estimateSavedMiB(ksmStats) ==
  IF ~ksmStats.ok THEN Zero
  ELSE IF ksmStats.shared <= 0 \/ ksmStats.sharing <= 0
          \/ ksmStats.sharing < ksmStats.shared THEN Zero
  ELSE [num |-> (ksmStats.sharing - ksmStats.shared) * PageSize, den |-> MiB]

\* the poll scan of stopHogs: allDone after one pass over the handles
allDone(ps, hs) ==
  \A j \in 1..Len(hs) :
    \/ hs[j].nilCmd
    \/ hs[j].ps = "exited"
    \/ hs[j].pid = 0
    \/ ~SignalOK(ps, hs[j])

\* Run, lines 101-103: the profile the run works with
EffectiveProfile(c) == IF c.Profile = "" THEN "P1" ELSE c.Profile

\* startHogs, lines 193-212: dirtyPct and redirty (a time.Duration) by the
\* profile
ProfileParams(c) ==
  CASE EffectiveProfile(c) = "P1" -> [dirtyPct |-> 0, redirty |-> 0]
    [] EffectiveProfile(c) = "P2" -> [dirtyPct |-> 5, redirty |-> 0]
    [] EffectiveProfile(c) = "P3" ->
         [dirtyPct |-> 50,
          redirty |-> IF c.Interval > 0 THEN c.Interval ELSE 1 * Second]
    [] OTHER -> [dirtyPct |-> 0, redirty |-> 0]

\* fmt.Sprintf("%.2f", x) of a whole number x, read back by the workload's
\* flag.Float64: the value in hundredths of a percent
FormatPct(x) == x * 100

\* time.Duration.Milliseconds(): whole milliseconds, the rest is cut off
Milliseconds(dur) ==
  IF dur >= 0 THEN dur \div Millisecond ELSE -((-dur) \div Millisecond)

\* startHogs, lines 215-221: the arguments of workload i
HogArgs(c, id) ==
  [memMiB |-> EffectiveMemMiB(c),
   id |-> id,
   dirtyPct |-> FormatPct(ProfileParams(c).dirtyPct),
   redirtyMs |-> Milliseconds(ProfileParams(c).redirty)]

\* startHogs, lines 214-234, when every cmd.Start succeeds: the argument
\* lists of the n workloads in launch order
startHogsArgs(c, n) == [j \in 1..n |-> HogArgs(c, j - 1)]

(* ------------------------------- Init ----------------------------------- *)

\* Config.ExecPath: missing, or the densityctl binary, whose __hog leaves on
\* SIGTERM (but need not have left when stopHogs stops waiting)
ExecPaths == {"", "densityctl"}

\* the instance-count sequences a caller may pass (0 stands for n <= 0)
InstanceSeqs ==
  UNION { [1..m -> 0..MaxN] : m \in 0..MaxLen }

\* the state before Run is called with one of the configurations cs on a
\* host whose tick source is one of srcs
InitRun(cs, srcs) ==
  /\ cfg \in cs
  /\ ksmd \in srcs
  /\ ticks = NoTicks
  /\ ctxDone = FALSE
  /\ pc = "run"
  /\ idx = 1
  /\ i = 0
  /\ cmds = <<>>
  /\ k = 1
  /\ elapsed = 0
  /\ ret = "-"
  /\ sel = "none"
  /\ startErr = "nil"
  /\ step = NewStep(0)
  /\ res = NilResult
  /\ err = "nil"
  /\ procs = <<>>
  /\ calls = 0
  /\ snap = <<>>
  /\ fs = {}
  /\ fn = NoCall
  /\ hog = NoHog

\* the same on a host without a process named ksmd
InitWith(cs) == InitRun(cs, {"absent"})

Init ==
  InitWith([ExecPath : ExecPaths, Instances : InstanceSeqs,
            MemMiB : {DefaultMemMiB}])

(* --------------------------- the environment ---------------------------- *)

\* the caller cancels ctx before or during the step loop (Run does not look
\* at ctx after it); a Run blocked in the warmup select is woken with the
\* ctx.Done() case
Cancel ==
  /\ pc \notin {"write_json", "write_md", "done"}
  /\ ~ctxDone
  /\ ctxDone' = TRUE
  /\ sel' = IF pc = "warmup" /\ sel = "none" THEN "ctx" ELSE sel
  /\ UNCHANGED <<cfg, pc, idx, i, cmds, k, elapsed, ret, startErr, step, res,
                 err, procs, calls, snap, fs, fn, hog, ksmd, ticks>>

\* time.After(cfg.Warmup) fires while Run is blocked in the select
TimerFire ==
  /\ pc = "warmup"
  /\ sel = "none"
  /\ sel' = "timer"
  /\ UNCHANGED <<cfg, ctxDone, pc, idx, i, cmds, k, elapsed, ret, startErr,
                 step, res, err, procs, calls, snap, fs, fn, hog, ksmd, ticks>>

\* a workload ends by itself (it rejected its parameters, it crashed)
ProcExit ==
  /\ pc # "done"
  /\ \E p \in 1..Len(procs) :
       /\ procs[p].st = "running"
       /\ ~procs[p].term
       /\ procs' = [procs EXCEPT ![p].st = "zombie"]
  /\ UNCHANGED <<cfg, ctxDone, pc, idx, i, cmds, k, elapsed, ret, sel,
                 startErr, step, res, err, calls, snap, fs, fn, hog, ksmd, ticks>>

\* a workload that handles SIGTERM leaves after the signal was delivered
ProcTermExit ==
  /\ \E p \in 1..Len(procs) :
       /\ procs[p].st = "running"
       /\ procs[p].term
       /\ procs[p].obeys
       /\ procs' = [procs EXCEPT ![p].st = "zombie", ![p].term = FALSE]
  /\ UNCHANGED <<cfg, ctxDone, pc, idx, i, cmds, k, elapsed, ret, sel,
                 startErr, step, res, err, calls, snap, fs, fn, hog, ksmd, ticks>>

\* exec.CommandContext: once ctx is done the command's process is killed
CtxKill ==
  /\ ctxDone
  /\ \E p \in 1..Len(procs) :
       /\ procs[p].st = "running"
       /\ procs[p].step > 0
       /\ procs' = Kill(procs, p)
  /\ UNCHANGED <<cfg, ctxDone, pc, idx, i, cmds, k, elapsed, ret, sel,
                 startErr, step, res, err, calls, snap, fs, fn, hog, ksmd, ticks>>

(* ------------------------------- Run ------------------------------------ *)

\* Run, lines 86-115: validation, defaults, os.MkdirAll, res := &RunResult
RunEntry ==
  /\ pc = "run"
  /\ IF cfg.ExecPath = ""
       THEN /\ err' = "ExecPath fehlt"
            /\ pc' = "done"
            /\ res' = res
     ELSE IF Len(cfg.Instances) = 0
       THEN /\ err' = "Instances ist leer"
            /\ pc' = "done"
            /\ res' = res
     ELSE \E mkdirOK \in BOOLEAN :
            IF mkdirOK
              THEN /\ res' = [isNil |-> FALSE, Steps |-> <<>>]
                   /\ pc' = "loop"
                   /\ err' = err
              ELSE /\ err' = "mkdir"
                   /\ pc' = "done"
                   /\ res' = res
  /\ fs' = IF pc' = "loop" THEN fs \cup {"outdir"} ELSE fs
  /\ UNCHANGED <<cfg, ctxDone, idx, i, cmds, k, elapsed, ret, sel, startErr,
                 step, procs, calls, snap, fn, hog, ksmd, ticks>>

\* Run, lines 117-134: loop head, "if n <= 0 { continue }", step := ...,
\* the pre snapshot
LoopHead ==
  /\ pc = "loop"
  /\ IF idx > Len(cfg.Instances)
       THEN /\ pc' = "write_json"
            /\ UNCHANGED <<idx, step, i, cmds, ticks>>
     ELSE IF cfg.Instances[idx] <= 0
       THEN /\ idx' = idx + 1
            /\ UNCHANGED <<pc, step, i, cmds, ticks>>
     ELSE /\ step' = [NewStep(cfg.Instances[idx]) EXCEPT
                        !.MemMiB = EffectiveMemMiB(cfg),
                        !.PreMemKB = ReadMemInfo(procs)]
          /\ \E r \in TickReads(ksmd) :
               ticks' = [before |-> r, after |-> FailedRead]
          /\ i' = 0
          /\ cmds' = <<>>
          /\ pc' = "start"
          /\ idx' = idx
  /\ startErr' = "nil"
  /\ UNCHANGED <<cfg, ctxDone, k, elapsed, ret, sel, res, err, procs, calls,
                 snap, fs, fn, hog, ksmd>>

\* cmd.Start(): fails with ctx.Err() when ctx is already done, and may fail
\* in exec; otherwise the process runs
StartResults == {"nil", "exec"}

\* startHogs returning the error without stopping the started ones
StartHogsNoRollback ==
  /\ pc = "start"
  /\ IF i < cfg.Instances[idx]
       THEN \E r \in StartResults :
              LET e == IF ctxDone THEN "context canceled" ELSE r
                  ob == cfg.ExecPath = "densityctl" IN
              IF e = "nil"
                THEN /\ procs' = Append(procs, NewProc(ob, idx))
                     /\ cmds' = Append(cmds, Handle(Len(procs) + 1))
                     /\ i' = i + 1
                     /\ UNCHANGED <<pc, startErr, k, ret>>
                ELSE /\ startErr' = e
                     /\ pc' = "start_fail"
                     /\ UNCHANGED <<procs, cmds, i, k, ret>>
       ELSE /\ pc' = "select"
            /\ UNCHANGED <<procs, cmds, i, startErr, k, ret>>
  /\ UNCHANGED <<cfg, ctxDone, idx, elapsed, sel, step, res, err, calls, snap, fs, fn, hog, ksmd, ticks>>

\* startHogs, lines 214-234: one iteration of the launch loop, or the return
StartHogs ==
  /\ pc = "start"
  /\ IF i < cfg.Instances[idx]
       THEN \E r \in StartResults :
              LET e == IF ctxDone THEN "context canceled" ELSE r
                  ob == cfg.ExecPath = "densityctl" IN
              IF e = "nil"
                THEN /\ procs' = Append(procs, NewProc(ob, idx))
                     /\ cmds' = Append(cmds, Handle(Len(procs) + 1))
                     /\ i' = i + 1
                     /\ UNCHANGED <<pc, startErr, k, ret>>
                ELSE /\ startErr' = e
                     /\ pc' = "stop_term"
                     /\ k' = 1
                     /\ ret' = "start_fail"
                     /\ UNCHANGED <<procs, cmds, i>>
       ELSE /\ pc' = "select"
            /\ UNCHANGED <<procs, cmds, i, startErr, k, ret>>
  /\ UNCHANGED <<cfg, ctxDone, idx, elapsed, sel, step, res, err, calls, snap, fs, fn, hog, ksmd, ticks>>

\* startHogs, line 229: "return nil, err" after the rollback
StartHogsFail ==
  /\ pc = "start_fail"
  /\ cmds' = <<>>
  /\ pc' = "start_failed"
  /\ UNCHANGED <<cfg, ctxDone, idx, i, k, elapsed, ret, sel, startErr, step,
                 res, err, procs, calls, snap, fs, fn, hog, ksmd, ticks>>

\* the start error ending the run
RecordStartErrorAbort ==
  /\ pc = "start_failed"
  /\ step' = [step EXCEPT !.Notes = "Startfehler: " \o startErr]
  /\ res' = [res EXCEPT !.Steps = Append(res.Steps, step')]
  /\ err' = startErr
  /\ pc' = "done"
  /\ UNCHANGED <<cfg, ctxDone, idx, i, cmds, k, elapsed, ret, sel, startErr,
                 procs, calls, snap, fs, fn, hog, ksmd, ticks>>

\* Run, lines 137-141: note the start error, append the step, continue
RecordStartError ==
  /\ pc = "start_failed"
  /\ step' = [step EXCEPT !.Notes = "Startfehler: " \o startErr]
  /\ res' = [res EXCEPT !.Steps = Append(res.Steps, step')]
  /\ idx' = idx + 1
  /\ pc' = "loop"
  /\ UNCHANGED <<cfg, ctxDone, i, cmds, k, elapsed, ret, sel, startErr, err,
                 procs, calls, snap, fs, fn, hog, ksmd, ticks>>

\* Run, lines 144-149: entering the select; with ctx already done either
\* ready case may be chosen, otherwise Run blocks
EnterSelect ==
  /\ pc = "select"
  /\ pc' = "warmup"
  /\ IF ctxDone
       THEN sel' \in {"ctx_ready", "timer"}
       ELSE sel' = "none"
  /\ UNCHANGED <<cfg, ctxDone, idx, i, cmds, k, elapsed, ret, startErr, step,
                 res, err, procs, calls, snap, fs, fn, hog, ksmd, ticks>>

\* the ctx.Done() case returning without stopHogs
WarmupCancelledNoStop ==
  /\ pc = "warmup"
  /\ sel \in {"ctx", "ctx_ready"}
  /\ pc' = "cancel_ret"
  /\ UNCHANGED <<cfg, ctxDone, idx, i, cmds, k, elapsed, ret, sel, startErr,
                 step, res, err, procs, calls, snap, fs, fn, hog, ksmd, ticks>>

\* Run, lines 145-146: case <-ctx.Done(): stopHogs(cmds)
WarmupCancelled ==
  /\ pc = "warmup"
  /\ sel \in {"ctx", "ctx_ready"}
  /\ pc' = "stop_term"
  /\ k' = 1
  /\ ret' = "cancel_ret"
  /\ UNCHANGED <<cfg, ctxDone, idx, i, cmds, elapsed, sel, startErr, step,
                 res, err, procs, calls, snap, fs, fn, hog, ksmd, ticks>>

\* "return nil, ctx.Err()": the partial result is dropped
ReturnCancelledNil ==
  /\ pc = "cancel_ret"
  /\ err' = "context canceled"
  /\ res' = NilResult
  /\ pc' = "done"
  /\ UNCHANGED <<cfg, ctxDone, idx, i, cmds, k, elapsed, ret, sel, startErr,
                 step, procs, calls, snap, fs, fn, hog, ksmd, ticks>>

\* Run, line 147: return res, ctx.Err()
ReturnCancelled ==
  /\ pc = "cancel_ret"
  /\ err' = "context canceled"
  /\ pc' = "done"
  /\ UNCHANGED <<cfg, ctxDone, idx, i, cmds, k, elapsed, ret, sel, startErr,
                 step, res, procs, calls, snap, fs, fn, hog, ksmd, ticks>>

\* the count taken without waiting for the warmup timer
CountAliveNoWarmup ==
  /\ pc = "warmup"
  /\ sel \in {"none", "timer"}
  /\ step' = [step EXCEPT !.Alive = countAlive(procs, cmds)]
  /\ pc' = "post"
  /\ UNCHANGED <<cfg, ctxDone, idx, i, cmds, k, elapsed, ret, sel, startErr,
                 res, err, procs, calls, snap, fs, fn, hog, ksmd, ticks>>

\* Run, lines 148-152: case <-time.After(cfg.Warmup), alive := countAlive
CountAlive ==
  /\ pc = "warmup"
  /\ sel = "timer"
  /\ step' = [step EXCEPT !.Alive = countAlive(procs, cmds)]
  /\ pc' = "post"
  /\ UNCHANGED <<cfg, ctxDone, idx, i, cmds, k, elapsed, ret, sel, startErr,
                 res, err, procs, calls, snap, fs, fn, hog, ksmd, ticks>>

\* the step recorded without the cleanup call
PostSnapshotNoStop ==
  /\ pc = "post"
  /\ \E postK \in KsmReadings, r \in TickReads(ksmd) :
       /\ ticks' = [ticks EXCEPT !.after = r]
       /\ step' = [step EXCEPT
                      !.PostKSM = postK,
                      !.KsmdTicksDelta = ticksDelta(ticks.before.v, r.v),
                      !.EstimatedSavedMiB = estimateSavedMiB(postK)]
  /\ pc' = "cleanup_ret"
  /\ UNCHANGED <<cfg, ctxDone, idx, i, cmds, k, elapsed, ret, sel, startErr,
                 res, err, procs, calls, snap, fs, fn, hog, ksmd>>

\* Run, lines 154-167: post snapshot, tick delta, estimate, then
\* stopHogs(cmds)
PostSnapshot ==
  /\ pc = "post"
  /\ \E postK \in KsmReadings, r \in TickReads(ksmd) :
       /\ ticks' = [ticks EXCEPT !.after = r]
       /\ step' = [step EXCEPT
                      !.PostKSM = postK,
                      !.KsmdTicksDelta = ticksDelta(ticks.before.v, r.v),
                      !.EstimatedSavedMiB = estimateSavedMiB(postK)]
  /\ pc' = "stop_term"
  /\ k' = 1
  /\ ret' = "cleanup_ret"
  /\ UNCHANGED <<cfg, ctxDone, idx, i, cmds, elapsed, sel, startErr, res, err,
                 procs, calls, snap, fs, fn, hog, ksmd>>

\* Run, lines 169-171: append the step, next instance count
RecordStep ==
  /\ pc = "cleanup_ret"
  /\ res' = [res EXCEPT !.Steps = Append(res.Steps, step)]
  /\ idx' = idx + 1
  /\ pc' = "loop"
  /\ UNCHANGED <<cfg, ctxDone, i, cmds, k, elapsed, ret, sel, startErr, step,
                 err, procs, calls, snap, fs, fn, hog, ksmd, ticks>>

\* Run, lines 174-177: writeJSON, "return res, err" when it fails
WriteJSON ==
  /\ pc = "write_json"
  /\ \E writeOK \in BOOLEAN :
       IF writeOK
         THEN /\ pc' = "write_md"
              /\ err' = err
              /\ fs' = fs \cup {"json"}
         ELSE /\ pc' = "done"
              /\ err' = "write"
              /\ fs' = fs
  /\ UNCHANGED <<cfg, ctxDone, idx, i, cmds, k, elapsed, ret, sel, startErr,
                 step, res, procs, calls, snap, fn, hog, ksmd, ticks>>

\* Run, lines 180-183: "_ = os.WriteFile(mdPath, ...)", return res, nil
WriteMarkdown ==
  /\ pc = "write_md"
  /\ \E writeOK \in BOOLEAN :
       fs' = IF writeOK THEN fs \cup {"md"} ELSE fs
  /\ pc' = "done"
  /\ err' = "nil"
  /\ UNCHANGED <<cfg, ctxDone, idx, i, cmds, k, elapsed, ret, sel, startErr,
                 step, res, procs, calls, snap, fn, hog, ksmd, ticks>>

(* ----------------------------- stopHogs --------------------------------- *)

\* stopHogs, lines 239-245: SIGTERM to the next handle, then the deadline
StopTerm ==
  /\ pc = "stop_term"
  /\ IF k <= Len(cmds)
       THEN /\ procs' = IF Skipped(cmds[k]) THEN procs
                        ELSE SignalTerm(procs, cmds[k].pid)
            /\ k' = k + 1
            /\ UNCHANGED <<pc, elapsed>>
       ELSE /\ elapsed' = 0
            /\ pc' = "stop_poll"
            /\ UNCHANGED <<procs, k>>
  /\ UNCHANGED <<cfg, ctxDone, idx, i, cmds, ret, sel, startErr, step, res,
                 err, calls, snap, fs, fn, hog, ksmd, ticks>>

\* the poll loop without its deadline
StopPollNoDeadline ==
  /\ pc = "stop_poll"
  /\ IF ~allDone(procs, cmds)
       THEN UNCHANGED <<pc, k, elapsed>>
       ELSE /\ pc' = "stop_kill"
            /\ k' = 1
            /\ UNCHANGED elapsed
  /\ UNCHANGED <<cfg, ctxDone, idx, i, cmds, ret, sel, startErr, step, res,
                 err, procs, calls, snap, fs, fn, hog, ksmd, ticks>>

\* stopHogs, lines 246-266: one pass of the poll loop
StopPoll ==
  /\ pc = "stop_poll"
  /\ IF elapsed < TeardownBoundMs /\ ~allDone(procs, cmds)
       THEN /\ elapsed' = elapsed + PollIntervalMs
            /\ UNCHANGED <<pc, k>>
       ELSE /\ pc' = "stop_kill"
            /\ k' = 1
            /\ UNCHANGED elapsed
  /\ UNCHANGED <<cfg, ctxDone, idx, i, cmds, ret, sel, startErr, step, res,
                 err, procs, calls, snap, fs, fn, hog, ksmd, ticks>>

\* stopHogs, lines 268-272: c.Process.Kill() on the next handle
StopKill ==
  /\ pc = "stop_kill"
  /\ IF k <= Len(cmds)
       THEN IF Skipped(cmds[k])
              THEN /\ k' = k + 1
                   /\ UNCHANGED <<pc, procs>>
              ELSE /\ procs' = Kill(procs, cmds[k].pid)
                   /\ pc' = "stop_wait"
                   /\ k' = k
       ELSE /\ pc' = "stop_ret"
            /\ UNCHANGED <<procs, k>>
  /\ UNCHANGED <<cfg, ctxDone, idx, i, cmds, elapsed, ret, sel, startErr,
                 step, res, err, calls, snap, fs, fn, hog, ksmd, ticks>>

\* stopHogs, line 273: c.Process.Wait() returns once the process has ended
StopWait ==
  /\ pc = "stop_wait"
  /\ procs[cmds[k].pid].st # "running"
  /\ procs' = Wait(procs, cmds[k].pid)
  /\ k' = k + 1
  /\ pc' = "stop_kill"
  /\ UNCHANGED <<cfg, ctxDone, idx, i, cmds, elapsed, ret, sel, startErr,
                 step, res, err, calls, snap, fs, fn, hog, ksmd, ticks>>

\* stopHogs, line 275: return nil
StopReturn ==
  /\ pc = "stop_ret"
  /\ pc' = ret
  /\ UNCHANGED <<cfg, ctxDone, idx, i, cmds, k, elapsed, ret, sel, startErr,
                 step, res, err, procs, calls, snap, fs, fn, hog, ksmd, ticks>>

stopHogs == StopTerm \/ StopPoll \/ StopKill \/ StopWait \/ StopReturn

Env == Cancel \/ TimerFire \/ ProcExit \/ ProcTermExit \/ CtxKill

Next ==
  \/ RunEntry \/ LoopHead \/ StartHogs \/ StartHogsFail \/ RecordStartError
  \/ EnterSelect \/ WarmupCancelled \/ ReturnCancelled \/ CountAlive
  \/ PostSnapshot \/ RecordStep \/ WriteJSON \/ WriteMarkdown
  \/ stopHogs
  \/ Env

Spec == Init /\ [][Next]_vars

(* ------------------ Run on configurations at the edge ------------------- *)

\* Config.MemMiB as a caller may set it
MemSizes == {-1, 0, 1, DefaultMemMiB}

\* Config.Instances: empty, or with counts on both sides of zero
EdgeInstances == {<<>>, <<-1>>, <<0>>, <<1>>, <<1, 0>>, <<0, 1>>}

InitCfg ==
  InitWith([ExecPath : ExecPaths, Instances : EdgeInstances,
            MemMiB : MemSizes])

SpecCfg == InitCfg /\ [][Next]_vars

(* ------------------ Run on a host with a tick source -------------------- *)

InitTicks ==
  InitRun([ExecPath : {"densityctl"}, Instances : {<<1>>, <<1, 1>>},
           MemMiB : {DefaultMemMiB}], {"present"})

SpecTicks == InitTicks /\ [][Next]_vars

(* ----------------------- the functions on their own --------------------- *)

\* the variables of Run and stopHogs
runVars == <<cfg, ctxDone, pc, idx, i, cmds, k, elapsed, ret, sel, startErr,
             step, res, err, procs, calls, snap, fs, ksmd, ticks>>

\* no Run is under way
Idle ==
  /\ cfg = [ExecPath |-> "densityctl", Instances |-> <<>>,
            MemMiB |-> DefaultMemMiB]
  /\ ctxDone = FALSE
  /\ pc = "idle"
  /\ idx = 1
  /\ i = 0
  /\ cmds = <<>>
  /\ k = 1
  /\ elapsed = 0
  /\ ret = "-"
  /\ sel = "none"
  /\ startErr = "nil"
  /\ step = NewStep(0)
  /\ res = NilResult
  /\ err = "nil"
  /\ procs = <<>>
  /\ calls = 0
  /\ snap = <<>>
  /\ fs = {}
  /\ ksmd = "absent"
  /\ ticks = NoTicks

\* what ksm.Status can hand to estimateSavedMiB: nil, or a map whose
\* counters (0 when the key is missing) are anything a file may hold
StatsInputs ==
  {NilStats} \cup [ok : {TRUE}, shared : -1..MaxPages, sharing : -1..MaxPages]

InitEstimate ==
  /\ Idle
  /\ hog = NoHog
  /\ fn \in [op : {"estimateSavedMiB"}, in : StatsInputs, done : {FALSE},
              out : {Zero}]

CallEstimate ==
  /\ fn.op = "estimateSavedMiB"
  /\ ~fn.done
  /\ fn' = [fn EXCEPT !.done = TRUE, !.out = estimateSavedMiB(fn.in)]
  /\ UNCHANGED <<runVars, hog>>

SpecEstimate == InitEstimate /\ [][CallEstimate]_vars

\* Config.Profile and Config.Interval (nanoseconds) as a caller may set them
Profiles == {"", "P1", "P2", "P3", "P4"}

Intervals ==
  {-Second, 0, 1, Millisecond \div 2, Millisecond, 3 * (Millisecond \div 2),
   250 * Millisecond, 2 * Second}

InitArgs ==
  /\ Idle
  /\ hog = NoHog
  /\ fn \in [op : {"startHogs"},
              in : [Profile : Profiles, Interval : Intervals,
                    MemMiB : {DefaultMemMiB}, n : 1..MaxN],
              done : {FALSE}, out : {<<>>}]

CallStartHogs ==
  /\ fn.op = "startHogs"
  /\ ~fn.done
  /\ fn' = [fn EXCEPT !.done = TRUE, !.out = startHogsArgs(fn.in, fn.in.n)]
  /\ UNCHANGED <<runVars, hog>>

SpecArgs == InitArgs /\ [][CallStartHogs]_vars

(* ----------------------------- parseScale ------------------------------- *)

\* A text is a sequence of characters.  A Go int is written [w, off] and
\* stands for w * 2^63 + off with a small off: w = 0 for the numbers near
\* zero, w = 1 (off < 0) for those just below 2^63, w = -1 (off >= 0) for
\* those just above -2^63.

Small(v) == [w |-> 0, off |-> v]

\* a <= b
Leq(a, b) == a.w < b.w \/ (a.w = b.w /\ a.off <= b.off)

\* a + b in 64-bit two's complement: a sum that reaches 2^63 continues at
\* -2^63, one below -2^63 continues below 2^63
AddWrap(a, b) ==
  LET w == a.w + b.w
      off == a.off + b.off
  IN  CASE w = 1 /\ off >= 0 -> [w |-> -1, off |-> off]
        [] w = -1 /\ off < 0 -> [w |-> 1, off |-> off]
        [] w \in {2, -2}     -> [w |-> 0, off |-> off]
        [] OTHER             -> [w |-> w, off |-> off]

DigitChars == {"0", "1", "2", "3", "4", "5", "6", "7", "8", "9"}

DigitVal(c) ==
  CASE c = "0" -> 0 [] c = "1" -> 1 [] c = "2" -> 2 [] c = "3" -> 3
    [] c = "4" -> 4 [] c = "5" -> 5 [] c = "6" -> 6 [] c = "7" -> 7
    [] c = "8" -> 8 [] c = "9" -> 9

RECURSIVE Decimal(_)
Decimal(ds) ==
  IF ds = <<>> THEN 0
  ELSE Decimal(SubSeq(ds, 1, Len(ds) - 1)) * 10 + DigitVal(ds[Len(ds)])

\* the decimal text of the largest int, 2^63 - 1
MaxIntText ==
  <<"9", "2", "2", "3", "3", "7", "2", "0", "3", "6", "8", "5", "4",
    "7", "7", "5", "8", "0", "7">>

\* strings.TrimSpace
RECURSIVE TrimSpace(_)
TrimSpace(t) ==
  IF t # <<>> /\ t[1] = " " THEN TrimSpace(Tail(t))
  ELSE IF t # <<>> /\ t[Len(t)] = " "
    THEN TrimSpace(SubSeq(t, 1, Len(t) - 1))
  ELSE t

\* strings.Split(s, ".."): cut at every ".." found from the left
RECURSIVE Split(_)
Split(t) ==
  LET cuts == {n \in 1..(Len(t) - 1) : t[n] = "." /\ t[n + 1] = "."}
  IN  IF cuts = {} THEN <<t>>
      ELSE LET n == CHOOSE c \in cuts : \A e \in cuts : c <= e
           IN  <<SubSeq(t, 1, n - 1)>> \o Split(SubSeq(t, n + 2, Len(t)))

\* strconv.Atoi: an optional sign and decimal digits, within the range of
\* int.  Texts of up to 9 digits give a number near zero, texts of 19
\* digits that begin like MaxIntText a number near 2^63 or a range error
\* (texts of other lengths are not among the inputs of the model).
Atoi(t) ==
  LET signed == t # <<>> /\ t[1] \in {"+", "-"}
      neg == t # <<>> /\ t[1] = "-"
      ds == IF signed THEN Tail(t) ELSE t
      head == SubSeq(MaxIntText, 1, 13)
      last == Decimal(SubSeq(MaxIntText, 14, 19))
      d == Decimal(SubSeq(ds, 14, 19))
  IN  IF ds = <<>> \/ \E n \in 1..Len(ds) : ds[n] \notin DigitChars
        THEN [err |-> TRUE, val |-> Small(0)]
      ELSE IF Len(ds) <= 9
        THEN [err |-> FALSE,
              val |-> Small(IF neg THEN -Decimal(ds) ELSE Decimal(ds))]
      ELSE IF Len(ds) = 19 /\ SubSeq(ds, 1, 13) = head /\ ~neg /\ d <= last
        THEN [err |-> FALSE, val |-> [w |-> 1, off |-> d - last - 1]]
      ELSE IF Len(ds) = 19 /\ SubSeq(ds, 1, 13) = head /\ neg /\ d <= last + 1
        THEN [err |-> FALSE, val |-> [w |-> -1, off |-> last + 1 - d]]
      ELSE [err |-> TRUE, val |-> Small(0)]

ScaleError == [kind |-> "error", out |-> <<>>]

\* parseScale, lines 290-316: the three numbers, or the error
scaleBounds(t) ==
  LET parts == Split(t)
      min == Atoi(TrimSpace(parts[1]))
      max == Atoi(TrimSpace(parts[2]))
      third == Atoi(TrimSpace(parts[3]))
      by == IF Len(parts) = 3 THEN third.val ELSE Small(1)
      bad == [err |-> TRUE, min |-> Small(0), max |-> Small(0),
              by |-> Small(0)]
  IN  IF Len(parts) # 2 /\ Len(parts) # 3 THEN bad
      ELSE IF min.err THEN bad
      ELSE IF max.err THEN bad
      ELSE IF Len(parts) = 3 /\ third.err THEN bad
      ELSE IF Len(parts) = 3 /\ Leq(by, Small(0)) THEN bad
      ELSE IF Leq(min.val, Small(0)) \/ Leq(max.val, Small(0))
              \/ ~Leq(min.val, max.val) THEN bad
      ELSE [err |-> FALSE, min |-> min.val, max |-> max.val, by |-> by]

\* the pieces a --scale text is put together from: numbers near zero,
\* with blanks, signs and leading zeros, and things that are no number
NearTokens ==
  { <<>>, <<"0">>, <<"1">>, <<"3">>, <<"5">>, <<"1", "0">>, <<"8", "0">>,
    <<" ", "3", " ">>, <<"-", "1">>, <<"+", "2">>, <<"x">>, <<"0", "7">>,
    <<".">> }

\* numbers at the upper end of int: 2^63 - 2, 2^63 - 1, and 2^63
FarTokens ==
  { SubSeq(MaxIntText, 1, 18) \o <<"6">>, MaxIntText,
    SubSeq(MaxIntText, 1, 18) \o <<"8">> }

Dots == <<".", ".">>

\* the --scale texts of the model: one, two, three and four pieces
ScaleTexts ==
  NearTokens
  \cup {a \o Dots \o b : a, b \in NearTokens}
  \cup {a \o Dots \o b \o Dots \o c : a, b, c \in NearTokens}
  \cup {a \o Dots \o a \o Dots \o a \o Dots \o a : a \in NearTokens}
  \cup {a \o Dots \o b : a, b \in FarTokens}
  \cup {a \o Dots \o b \o Dots \o c :
          a, b \in FarTokens, c \in {<<"0">>, <<"1">>, <<"3">>}}

\* a call of parseScale: n is the loop variable i, kind is "parse" before
\* the checks, "loop" in the loop, and at the end "error" (an error and no
\* sequence), "ok" (the sequence out is returned) or "runaway" (i has
\* wrapped around: the loop goes on from the smallest ints and does not
\* return)
InitScale ==
  /\ Idle
  /\ hog = NoHog
  /\ fn \in [op : {"parseScale"}, in : ScaleTexts, done : {FALSE},
              kind : {"parse"}, out : {<<>>}, n : {Small(0)},
              max : {Small(0)}, by : {Small(0)}]

\* parseScale, lines 290-317: split, convert and check
CallParseScale ==
  /\ fn.op = "parseScale"
  /\ fn.kind = "parse"
  /\ LET b == scaleBounds(fn.in) IN
       IF b.err
         THEN fn' = [fn EXCEPT !.done = TRUE, !.kind = "error"]
         ELSE fn' = [fn EXCEPT !.kind = "loop", !.n = b.min, !.max = b.max,
                               !.by = b.by]
  /\ UNCHANGED <<runVars, hog>>

\* parseScale, lines 318-321: one turn of "for i := min; i <= max;
\* i += step", or the return
ScaleLoop ==
  /\ fn.op = "parseScale"
  /\ fn.kind = "loop"
  /\ IF ~Leq(fn.n, fn.max)
       THEN fn' = [fn EXCEPT !.done = TRUE, !.kind = "ok"]
     ELSE IF Leq(AddWrap(fn.n, fn.by), fn.n)
       THEN fn' = [fn EXCEPT !.done = TRUE, !.kind = "runaway",
                             !.out = Append(fn.out, fn.n),
                             !.n = AddWrap(fn.n, fn.by)]
     ELSE fn' = [fn EXCEPT !.out = Append(fn.out, fn.n),
                           !.n = AddWrap(fn.n, fn.by)]
  /\ UNCHANGED <<runVars, hog>>

SpecScale == InitScale /\ [][CallParseScale \/ ScaleLoop]_vars

(* ------------------------------ cmdHog ---------------------------------- *)

\* the inputs (T, p) of the model, p in hundredths of a percent, at which
\* float64(T) * (p / 100.0) in IEEE-754 binary64 lies just below the whole
\* number T * p / 100, so that int(...) is one less; at the model's other
\* inputs the binary64 product truncates to floor(T * p / 100)
Binary64Short == {<<3840, 5125>>, <<6400, 2900>>, <<6400, 5125>>}

\* cmdHog, line 363: int(float64(totalPages) * (*dirtyPct / 100.0)) for a
\* dirty fraction that is a number
dirtyPagesOf(T, p) ==
  (T * p) \div 10000 - (IF <<T, p>> \in Binary64Short THEN 1 ELSE 0)

\* cmdHog, line 368: (uint64(id)*1315423911 + uint64(j)*2654435761) %
\* uint64(T); for 0 <= id, j < 2^31 the uint64 sum does not wrap, and it is
\* reduced modulo T factor by factor
dirtyIndex(id, j, T) ==
  LET c1 == MixId % T
      c2 == ((MixJHi % T) * (Limb % T) + MixJLo) % T
  IN  ((((id % T) * c1) % T) + (((j % T) * c2) % T)) % T

\* cmdHog, lines 364-370: the index sequence
dirtyIndices(id, T, dirtyPages) ==
  IF dirtyPages > 0
    THEN [n \in 1..dirtyPages |-> dirtyIndex(id, n - 1, T)]
    ELSE <<>>

\* cmdHog, lines 344 and 362: pages of a buffer of m MiB
pagesOf(m) == (m * MiB) \div PageSize

\* --mem-mib and --dirty-pct of the dirty-index computation
DirtyMems == {1, 15, 25}

DirtyPcts == {0, 500, 2900, 5000, 5125, 10000}

InitDirty ==
  /\ Idle
  /\ hog = NoHog
  /\ fn \in [op : {"dirtyIndices"},
              in : [id : 0..MaxId, memMiB : DirtyMems, pct : DirtyPcts],
              done : {FALSE}, out : {<<>>}]

CallDirtyIndices ==
  /\ fn.op = "dirtyIndices"
  /\ ~fn.done
  /\ LET T == pagesOf(fn.in.memMiB) IN
       fn' = [fn EXCEPT !.done = TRUE,
                        !.out = dirtyIndices(fn.in.id, T,
                                             dirtyPagesOf(T, fn.in.pct))]
  /\ UNCHANGED <<runVars, hog>>

SpecDirty == InitDirty /\ [][CallDirtyIndices]_vars

(* ---------------------------- applyDirty -------------------------------- *)

\* a uint64 is written as its four 16-bit limbs <<bits 48-63, bits 32-47,
\* bits 16-31, bits 0-15>>; uint64(n) for an int 0 <= n < 2^31
U64(n) == <<0, 0, n \div Limb, n % Limb>>

\* a ^ b on values below 2^bits
RECURSIVE XorBits(_, _, _)
XorBits(a, b, bits) ==
  IF bits = 0 THEN 0
  ELSE (IF a % 2 = b % 2 THEN 0 ELSE 1)
       + 2 * XorBits(a \div 2, b \div 2, bits - 1)

\* a ^ b on uint64
Xor64(a, b) == [n \in 1..4 |-> XorBits(a[n], b[n], 16)]

\* w << 32 on uint64: the upper 32 bits are shifted out
Shl32(w) == <<w[3], w[4], 0, 0>>

\* counter++ on uint64, wrapping at 2^64
Inc64(w) ==
  IF w[4] < Limb - 1 THEN <<w[1], w[2], w[3], w[4] + 1>>
  ELSE IF w[3] < Limb - 1 THEN <<w[1], w[2], w[3] + 1, 0>>
  ELSE IF w[2] < Limb - 1 THEN <<w[1], w[2] + 1, 0, 0>>
  ELSE IF w[1] < Limb - 1 THEN <<w[1] + 1, 0, 0, 0>>
  ELSE <<0, 0, 0, 0>>

\* applyDirty, line 407: the constant 0xBADC0FFEE
MarkerConst == <<0, MarkHi, MarkMid, MarkLo>>

\* the marker with the id left in the low bits
markerNoShift(id, counter) == Xor64(Xor64(U64(id), counter), MarkerConst)

\* applyDirty, line 407: v := (uint64(id) << 32) ^ counter ^ 0xBADC0FFEE
marker(id, counter) == Xor64(Xor64(Shl32(U64(id)), counter), MarkerConst)

\* the marker written to the start of the page after the listed one
applyDirtyNextPage(buf, len, id, indices, counter) ==
  LET offs == {(indices[n] + 1) * PageSize : n \in DOMAIN indices}
      put  == {off \in offs : off + 8 <= len}
      v    == marker(id, counter)
  IN  [off \in (DOMAIN buf) \cup put |-> IF off \in put THEN v ELSE buf[off]]

\* applyDirty, lines 402-411. buf is the buffer as its difference from the
\* template fill: a function from the byte offset of a PutUint64 to the
\* eight bytes written there (all offsets written are multiples of 8, so
\* writes do not overlap in part); every other byte is the template's
applyDirty(buf, len, id, indices, counter) ==
  LET offs == {indices[n] * PageSize : n \in DOMAIN indices}
      put  == {off \in offs : off + 8 <= len}
      v    == marker(id, counter)
  IN  [off \in (DOMAIN buf) \cup put |-> IF off \in put THEN v ELSE buf[off]]

\* counters a workload can have reached: the first cycles, and the ones
\* around 2^32 and 2^64
Counters ==
  {U64(c) : c \in 0..MaxCycles}
  \cup {<<0, d, 0, c>> : d \in 1..(MaxId + 1), c \in 0..1}
  \cup {<<Limb - 1, Limb - 1, Limb - 1, Limb - 1>>}

\* two workloads of one batch at the same page index, each in some cycle
InitMarker ==
  /\ Idle
  /\ hog = NoHog
  /\ fn \in [op : {"marker"}, id1 : 0..MaxId, id2 : 0..MaxId,
              c1 : Counters, c2 : Counters, done : {FALSE},
              v1 : {<<>>}, v2 : {<<>>}, prev1 : {<<>>}]

\* the first workload's marker of its cycle, the second workload's marker
CallMarker ==
  /\ fn.op = "marker"
  /\ ~fn.done
  /\ fn' = [fn EXCEPT !.done = TRUE,
                      !.v1 = marker(fn.id1, fn.c1),
                      !.v2 = marker(fn.id2, fn.c2)]
  /\ UNCHANGED <<runVars, hog>>

\* cmdHog, lines 395-397: the first workload's next cycle, "counter++;
\* applyDirty(buf, pageSize, *id, indices, counter)"
NextCycle ==
  /\ fn.op = "marker"
  /\ fn.done
  /\ fn.prev1 = <<>>
  /\ fn' = [fn EXCEPT !.c1 = Inc64(fn.c1),
                      !.prev1 = fn.v1,
                      !.v1 = marker(fn.id1, Inc64(fn.c1))]
  /\ UNCHANGED <<runVars, hog>>

SpecMarker == InitMarker /\ [][CallMarker \/ NextCycle]_vars

\* --mem-mib as the int hi * 2^44 + lo with a small lo of either sign:
\* int64(memMiB) * 1024 * 1024 is computed modulo 2^64, which drops hi and
\* leaves lo MiB
HogMems == [hi : {0, 1}, lo : {-1, 0, 1, 25, MaxInt32 \div MiB + 1}]

\* --dirty-pct as flag.Float64 parses it: a number, in hundredths of a
\* percent, or NaN
HogPcts ==
  [nan : {FALSE}, v : {-1, 0, 5000, 10000, 10001}]
  \cup {[nan |-> TRUE, v |-> 0]}

\* --redirty-ms
HogRedirty == {-1, 0, 1000}

\* cmdHog, line 344: size := int64(*memMiB) * 1024 * 1024, in MiB; a whole
\* number of MiB is above MaxInt32 bytes exactly when it is above
\* MaxInt32 \div MiB
sizeOf(m) == m.lo

\* a workload process before cmdHog looks at its flags; indices is the
\* slice of line 364, buf is the buffer as applyDirty takes it
NewHog(m, p, r) ==
  [pc |-> "validate", memMiB |-> m, id |-> 0, dirtyPct |-> p,
   redirtyMs |-> r, valid |-> FALSE, bufMiB |-> -1, dirtyPages |-> 0,
   notify |-> FALSE, sigCh |-> <<>>, sent |-> 0, ticker |-> "nil",
   counter |-> 0, exit |-> "running", indices |-> <<>>, buf |-> <<>>]

InitHog ==
  /\ Idle
  /\ fn = NoCall
  /\ hog \in {NewHog(m, p, r) : m \in HogMems, p \in HogPcts, r \in HogRedirty}

\* cmdHog, lines 337-347: the checks of the flags; a comparison with NaN is
\* false
HogValidate ==
  /\ hog.pc = "validate"
  /\ IF hog.memMiB.hi = 0 /\ hog.memMiB.lo <= 0
       THEN hog' = [hog EXCEPT !.pc = "exited", !.exit = "error"]
     ELSE IF ~hog.dirtyPct.nan /\ (hog.dirtyPct.v < 0 \/ hog.dirtyPct.v > 10000)
       THEN hog' = [hog EXCEPT !.pc = "exited", !.exit = "error"]
     ELSE IF sizeOf(hog.memMiB) > MaxInt32 \div MiB
       THEN hog' = [hog EXCEPT !.pc = "exited", !.exit = "error"]
     ELSE hog' = [hog EXCEPT !.pc = "alloc", !.valid = TRUE]
  /\ UNCHANGED <<runVars, fn>>

\* cmdHog, lines 349-359: make([]byte, int(size)), which panics on a
\* negative size, and the template fill
HogAlloc ==
  /\ hog.pc = "alloc"
  /\ IF sizeOf(hog.memMiB) < 0
       THEN hog' = [hog EXCEPT !.pc = "exited", !.exit = "panic"]
       ELSE hog' = [hog EXCEPT !.pc = "dirty", !.bufMiB = sizeOf(hog.memMiB)]
  /\ UNCHANGED <<runVars, fn>>

\* cmdHog, lines 362-372: the dirty pages; int(NaN) depends on the platform
\* (the smallest int, with which make panics, or 0)
HogDirty ==
  /\ hog.pc = "dirty"
  /\ IF hog.dirtyPct.nan
       THEN \E smallest \in BOOLEAN :
              IF smallest
                THEN hog' = [hog EXCEPT !.pc = "exited", !.exit = "panic"]
                ELSE hog' = [hog EXCEPT !.pc = "notify", !.dirtyPages = 0]
       ELSE LET T == pagesOf(hog.bufMiB)
                dirtyPages == dirtyPagesOf(T, hog.dirtyPct.v)
            IN  \E indices \in {dirtyIndices(hog.id, T, dirtyPages)} :
                  hog' = [hog EXCEPT
                            !.pc = "notify",
                            !.dirtyPages = dirtyPages,
                            !.indices = indices,
                            !.buf = IF dirtyPages > 0
                                      THEN applyDirty(hog.buf,
                                                      hog.bufMiB * MiB,
                                                      hog.id, indices, U64(0))
                                      ELSE hog.buf]
  /\ UNCHANGED <<runVars, fn>>

\* cmdHog, lines 375-382: signal.Notify, and the ticker when re-dirtying is
\* on and there are dirty pages
HogNotify ==
  /\ hog.pc = "notify"
  /\ hog' = [hog EXCEPT
               !.pc = "wait",
               !.notify = TRUE,
               !.ticker = IF hog.redirtyMs > 0 /\ Len(hog.indices) > 0
                            THEN "armed" ELSE "nil"]
  /\ UNCHANGED <<runVars, fn>>

\* cmdHog, lines 385-389: no ticker, "<-sigCh; return nil"
HogWaitReturn ==
  /\ hog.pc = "wait"
  /\ hog.ticker = "nil"
  /\ hog.sigCh # <<>>
  /\ hog' = [hog EXCEPT !.pc = "exited", !.exit = "nil",
                        !.sigCh = Tail(hog.sigCh)]
  /\ UNCHANGED <<runVars, fn>>

\* cmdHog, lines 392-394: "case <-sigCh: return nil" of the select
HogSelectReturn ==
  /\ hog.pc = "wait"
  /\ hog.ticker # "nil"
  /\ hog.sigCh # <<>>
  /\ hog' = [hog EXCEPT !.pc = "exited", !.exit = "nil",
                        !.sigCh = Tail(hog.sigCh)]
  /\ UNCHANGED <<runVars, fn>>

\* cmdHog, lines 395-397: "case <-ticker.C: counter++; applyDirty(...)"
HogRedirtyCycle ==
  /\ hog.pc = "wait"
  /\ hog.ticker = "ready"
  /\ hog' = [hog EXCEPT
               !.ticker = "armed",
               !.counter = hog.counter + 1,
               !.buf = applyDirty(hog.buf, hog.bufMiB * MiB, hog.id,
                                  hog.indices, U64(hog.counter + 1))]
  /\ UNCHANGED <<runVars, fn>>

\* the ticker period has passed
TickerTick ==
  /\ hog.pc = "wait"
  /\ hog.ticker = "armed"
  /\ hog.counter < MaxCycles
  /\ hog' = [hog EXCEPT !.ticker = "ready"]
  /\ UNCHANGED <<runVars, fn>>

\* SIGINT or SIGTERM is sent to the process: queued on sigCh once
\* signal.Notify has run (dropped when the channel is full), before that
\* the Go runtime ends the process
HogSignal ==
  /\ hog.pc \notin {"none", "exited"}
  /\ hog.sent < MaxSignals
  /\ \E sig \in {"SIGINT", "SIGTERM"} :
       IF hog.notify
         THEN hog' = [hog EXCEPT
                        !.sent = hog.sent + 1,
                        !.sigCh = IF Len(hog.sigCh) < SigChCap
                                    THEN Append(hog.sigCh, sig)
                                    ELSE hog.sigCh]
         ELSE hog' = [hog EXCEPT !.sent = hog.sent + 1, !.pc = "exited",
                                 !.exit = "signal"]
  /\ UNCHANGED <<runVars, fn>>

cmdHog ==
  \/ HogValidate \/ HogAlloc \/ HogDirty \/ HogNotify
  \/ HogWaitReturn \/ HogSelectReturn \/ HogRedirtyCycle

NextHog == cmdHog \/ TickerTick \/ HogSignal

SpecHog == InitHog /\ [][NextHog]_vars

(* ------------------- stopHogs on arbitrary handles ---------------------- *)

\* what a handle given to stopHogs can be
HandleKinds ==
  {"nil", "unstarted", "running", "stubborn", "zombie", "waited", "waited_sig"}

HandleOf(kind, p) ==
  CASE kind = "nil"        -> [nilCmd |-> TRUE, pid |-> 0, ps |-> "nil"]
    [] kind = "unstarted"  -> [nilCmd |-> FALSE, pid |-> 0, ps |-> "nil"]
    [] kind = "waited"     -> [nilCmd |-> FALSE, pid |-> p, ps |-> "exited"]
    [] kind = "waited_sig" -> [nilCmd |-> FALSE, pid |-> p, ps |-> "signaled"]
    [] OTHER               -> Handle(p)

ProcOf(kind) ==
  CASE kind = "running"  -> NewProc(TRUE, 0)
    [] kind = "stubborn" -> NewProc(FALSE, 0)
    [] kind = "zombie"   -> [NewProc(TRUE, 0) EXCEPT !.st = "zombie"]
    [] kind \in {"waited", "waited_sig"} -> [NoProc EXCEPT !.st = "reaped"]
    [] OTHER             -> NoProc

KindSeqs == UNION { [1..m -> HandleKinds] : m \in 0..MaxHandles }

InitStop ==
  /\ \E ks \in KindSeqs :
       /\ cmds = [j \in 1..Len(ks) |-> HandleOf(ks[j], j)]
       /\ procs = [j \in 1..Len(ks) |-> ProcOf(ks[j])]
  /\ cfg = [ExecPath |-> "densityctl", Instances |-> <<>>,
            MemMiB |-> DefaultMemMiB]
  /\ ctxDone = FALSE
  /\ pc = "stop_term"
  /\ idx = 1
  /\ i = 0
  /\ k = 1
  /\ elapsed = 0
  /\ ret = "called"
  /\ sel = "none"
  /\ startErr = "nil"
  /\ step = NewStep(0)
  /\ res = NilResult
  /\ err = "nil"
  /\ calls = 1
  /\ snap = <<>>
  /\ fs = {}
  /\ fn = NoCall
  /\ hog = NoHog
  /\ ksmd = "absent"
  /\ ticks = NoTicks

\* the caller: after the first return it calls stopHogs on the same handles
\* again, after the second it is done
CallAgain ==
  /\ pc = "called"
  /\ IF calls = 1
       THEN /\ snap' = procs
            /\ calls' = 2
            /\ k' = 1
            /\ pc' = "stop_term"
       ELSE /\ pc' = "done"
            /\ UNCHANGED <<snap, calls, k>>
  /\ UNCHANGED <<cfg, ctxDone, idx, i, cmds, elapsed, ret, sel, startErr,
                 step, res, err, procs, fs, fn, hog, ksmd, ticks>>

NextStop == stopHogs \/ CallAgain \/ ProcTermExit

SpecStop == InitStop /\ [][NextStop]_vars

\* the orchestrator goroutine is scheduled, and a process that handles
\* SIGTERM gets to run
FairSpecStop ==
  SpecStop /\ WF_vars(stopHogs \/ CallAgain) /\ WF_vars(ProcTermExit)

(* ============================== claims ================================== *)

\* C1: instance counts are processed in the order given and a step is torn
\* down before the next one spawns: every process belongs to the current
\* step or an earlier one, processes are spawned in step order, and every
\* process of an earlier step has been reaped, so workloads of two steps
\* are never alive together.
C1_StepsDoNotOverlap ==
  /\ \A p \in 1..Len(procs) : procs[p].step <= idx
  /\ \A p \in 1..Len(procs) : procs[p].step < idx => procs[p].st = "reaped"
  /\ \A p, q \in 1..Len(procs) : p < q => procs[p].step <= procs[q].step

C1_Witness ==
  \E p, q \in 1..Len(procs) :
    /\ procs[p].step = 1 /\ procs[p].st = "reaped"
    /\ procs[q].step = 2 /\ procs[q].st = "running"

\* C2: when a launch of startHogs fails, startHogs returns the error only
\* after every process already launched in the batch has been stopped and
\* reaped, and it returns no handles.
C2_LaunchFailureRollsBack ==
  pc = "start_failed" =>
    /\ cmds = <<>>
    /\ startErr # "nil"
    /\ \A p \in 1..Len(procs) : procs[p].step = idx => procs[p].st = "reaped"

C2_Witness ==
  /\ pc = "start_failed"
  /\ startErr = "exec"
  /\ i >= 1
  /\ \E p \in 1..Len(procs) : procs[p].step = idx

\* C3: when Run has returned, on whatever path, every process it spawned has
\* ended and has been reaped.
C3_NothingOutlivesRun ==
  pc = "done" => \A p \in 1..Len(procs) : procs[p].st = "reaped"

C3_Witness ==
  /\ pc = "done"
  /\ err = "context canceled"
  /\ Len(procs) >= 2

\* C4: a Run woken from the warmup wait of step idx by the cancellation
\* returns the cancellation error and a non-nil result whose steps are the
\* ones recorded before that step, in order, after reaping the step's
\* processes; from the wake-up on the recorded steps do not change.
C4_CancelDuringWarmup ==
  /\ [](pc = "done" /\ sel = "ctx" =>
          LET Pos(n) == n > 0
              before == SelectSeq(SubSeq(cfg.Instances, 1, idx - 1), Pos)
          IN /\ err = "context canceled"
             /\ ~res.isNil
             /\ Len(res.Steps) = Len(before)
             /\ \A j \in 1..Len(before) : res.Steps[j].N = before[j]
             /\ \A p \in 1..Len(procs) : procs[p].st = "reaped")
  /\ [][(sel = "ctx" \/ sel' = "ctx") => res' = res]_vars

C4_Witness ==
  /\ pc = "done"
  /\ sel = "ctx"
  /\ Len(res.Steps) >= 1
  /\ \E p \in 1..Len(procs) : procs[p].step = idx

\* C5: when the context of a Run with positive instance counts is cancelled
\* during the step loop, no step carries the cancellation as a
\* launch-failure note, and Run returns the cancellation error with its
\* result.
C5_CancellationSurfaces ==
  (ctxDone /\ \A j \in 1..Len(cfg.Instances) : cfg.Instances[j] > 0)
  => /\ \A j \in 1..Len(res.Steps) :
          res.Steps[j].Notes # "Startfehler: context canceled"
     /\ pc = "done" /\ ~res.isNil => err = "context canceled"

\* C6: stopHogs on one or more running workloads that all ignore SIGTERM
\* returns after the whole teardown bound with every one of them killed and
\* reaped.
C6_StubbornAreKilled ==
  (/\ pc = "called"
   /\ calls = 1
   /\ Len(cmds) >= 1
   /\ \A j \in 1..Len(cmds) :
        /\ ~Skipped(cmds[j])
        /\ cmds[j].ps = "nil"
        /\ ~procs[cmds[j].pid].obeys)
  => /\ elapsed = TeardownBoundMs
     /\ \A j \in 1..Len(cmds) : procs[cmds[j].pid].st = "reaped"

C6_Witness ==
  /\ pc = "called"
  /\ calls = 1
  /\ Len(cmds) >= 2
  /\ elapsed = TeardownBoundMs
  /\ \A j \in 1..Len(cmds) :
       /\ ~Skipped(cmds[j])
       /\ cmds[j].ps = "nil"
       /\ ~procs[cmds[j].pid].obeys
       /\ procs[cmds[j].pid].st = "reaped"

\* C7: every call of stopHogs, whatever its handles are, returns.
C7_StopHogsReturns == (pc = "stop_term") ~> (pc = "called")

C7_Witness ==
  /\ pc = "called"
  /\ \E j \in 1..Len(cmds) : Skipped(cmds[j])
  /\ \E j \in 1..Len(cmds) :
       ~Skipped(cmds[j]) /\ cmds[j].ps = "nil" /\ procs[cmds[j].pid].st = "reaped"

\* C8: a second stopHogs on the same handles leaves every process as the
\* first call left it, dead and reaped, and takes no poll sleep.
C8_SecondStopChangesNothing ==
  (pc = "done" /\ calls = 2) =>
    /\ procs = snap
    /\ elapsed = 0
    /\ \A j \in 1..Len(cmds) :
         ~Skipped(cmds[j]) => procs[cmds[j].pid].st = "reaped"

C8_Witness ==
  /\ pc = "done"
  /\ calls = 2
  /\ Len(cmds) >= 2
  /\ \A j \in 1..Len(cmds) :
       ~Skipped(cmds[j]) /\ cmds[j].ps = "nil" /\ procs[cmds[j].pid].st = "reaped"

\* C9: countAlive returns the number of handles whose process is still
\* running (an exited, unreaped workload is not counted) and changes no
\* process or handle.
C9_CountsOnlyRunning ==
  [][(pc = "warmup" /\ pc' = "post") =>
       /\ step'.Alive =
            Cardinality({j \in 1..Len(cmds) : procs[cmds[j].pid].st = "running"})
       /\ procs' = procs
       /\ cmds' = cmds]_vars

\* C10: a Run that was not cancelled and returns its result has one StepResult
\* per requested instance count, in request order with N that count,
\* 0 <= Alive <= N and a non-negative estimate.
C10_OneStepPerCount ==
  (pc = "done" /\ ~ctxDone /\ ~res.isNil /\ err = "nil") =>
    /\ Len(res.Steps) = Len(cfg.Instances)
    /\ \A j \in 1..Len(res.Steps) :
         /\ j <= Len(cfg.Instances) => res.Steps[j].N = cfg.Instances[j]
         /\ 0 <= res.Steps[j].Alive
         /\ res.Steps[j].Alive <= res.Steps[j].N
         /\ res.Steps[j].EstimatedSavedMiB.num >= 0

\* C11: a failed launch is recorded and the run goes on: from the failed
\* cmd.Start on Run neither waits for a warmup nor takes a post snapshot nor
\* returns; it appends one StepResult for the count with a failure note,
\* Alive = 0, no post snapshot and a zero estimate, and moves to the next
\* count; such a step stays as recorded.
C11_LaunchFailureIsRecorded ==
  /\ [](startErr # "nil" =>
          pc \notin {"select", "warmup", "post", "cleanup_ret", "cancel_ret",
                     "write_json", "write_md", "done"})
  /\ [](\A j \in 1..Len(res.Steps) :
          res.Steps[j].Notes # "" =>
            /\ res.Steps[j].Alive = 0
            /\ res.Steps[j].PostKSM = NilStats
            /\ res.Steps[j].EstimatedSavedMiB = Zero)
  /\ [][(pc = "start_failed" /\ pc' # pc) =>
          /\ pc' = "loop"
          /\ idx' = idx + 1
          /\ err' = "nil"
          /\ Len(res'.Steps) = Len(res.Steps) + 1
          /\ SubSeq(res'.Steps, 1, Len(res.Steps)) = res.Steps
          /\ LET s == res'.Steps[Len(res'.Steps)] IN
               /\ s.N = cfg.Instances[idx]
               /\ s.Notes # ""
               /\ s.Alive = 0
               /\ s.PostKSM = NilStats]_vars

C11_Witness ==
  /\ Len(res.Steps) = 2
  /\ res.Steps[1].Notes = "Startfehler: exec"
  /\ res.Steps[1].N = 2
  /\ res.Steps[2].Notes = ""
  /\ pc = "done"
  /\ err = "nil"

\* C12: a configuration with a missing executable path, a memory size <= 0,
\* no instance counts or an instance count <= 0 makes Run return an error
\* and no result, with no process spawned, no output directory created and
\* no artifact written.
C12_InvalidConfigFailsFast ==
  (\/ cfg.ExecPath = ""
   \/ cfg.MemMiB <= 0
   \/ Len(cfg.Instances) = 0
   \/ \E j \in 1..Len(cfg.Instances) : cfg.Instances[j] <= 0)
  => /\ pc \in {"run", "done"}
     /\ procs = <<>>
     /\ fs = {}
     /\ pc = "done" => (err # "nil" /\ res.isNil)

\* C13: a workload process that has passed the checks of its flags ends only
\* by cmdHog returning nil, and only after a SIGINT or SIGTERM was sent to
\* it.
C13_HogLeavesOnlyOnSignal ==
  (hog.pc = "exited" /\ hog.valid) => (hog.exit = "nil" /\ hog.sent > 0)

\* C14: a workload asked for a memory size <= 0, a dirty fraction that is
\* not within [0,100] or a memory size above the addressing limit of
\* MaxInt32 bytes ends with an error without having allocated a buffer or
\* installed the signal handlers; a buffer that is allocated has the size
\* asked for.
C14_HogRejectsBadSizes ==
  hog.pc # "none" =>
    LET asked == hog.memMiB
        tooSmall == asked.hi = 0 /\ asked.lo <= 0
        tooLarge == asked.hi > 0 \/ asked.lo > MaxInt32 \div MiB
        badPct == hog.dirtyPct.nan \/ hog.dirtyPct.v < 0
                  \/ hog.dirtyPct.v > 10000
    IN /\ (tooSmall \/ tooLarge \/ badPct) =>
            /\ hog.pc \in {"validate", "exited"}
            /\ hog.exit \in {"running", "error", "signal"}
            /\ hog.bufMiB = -1
            /\ ~hog.notify
       /\ hog.bufMiB # -1 => (asked.hi = 0 /\ hog.bufMiB = asked.lo)

\* C15: for the profiles P1, P2 and P3 every one of the n workloads of a
\* batch, with ids 0..n-1, is passed the dirty fraction and the re-dirty
\* interval of the profile: (0%, disabled), (5%, disabled), and for P3 50%
\* with Config.Interval when that is > 0 and 1s otherwise; Config.Interval
\* changes nothing for P1 and P2.
C15_ProfileDecidesDirtying ==
  (fn.op = "startHogs" /\ fn.done /\ fn.in.Profile \in {"P1", "P2", "P3"})
  => LET want ==
           CASE fn.in.Profile = "P1" -> [pct |-> 0, interval |-> 0]
             [] fn.in.Profile = "P2" -> [pct |-> 5, interval |-> 0]
             [] fn.in.Profile = "P3" ->
                  [pct |-> 50,
                   interval |-> IF fn.in.Interval > 0 THEN fn.in.Interval
                                ELSE Second]
     IN /\ Len(fn.out) = fn.in.n
        /\ \A j \in 1..Len(fn.out) :
             /\ fn.out[j].id = j - 1
             /\ fn.out[j].dirtyPct = 100 * want.pct
             /\ fn.out[j].redirtyMs * Millisecond = want.interval

\* C16: estimateSavedMiB returns exactly 0 for nil or empty statistics, for
\* pages_shared <= 0 and for pages_sharing < pages_shared; in every other
\* case it returns (pages_sharing - pages_shared) * pageSize / 2^20; the
\* result is never negative.
C16_EstimateIsClamped ==
  (fn.op = "estimateSavedMiB" /\ fn.done)
  => /\ (~fn.in.ok \/ fn.in.shared <= 0 \/ fn.in.sharing < fn.in.shared)
          => fn.out.num = 0
     /\ ~(~fn.in.ok \/ fn.in.shared <= 0 \/ fn.in.sharing < fn.in.shared)
          => /\ fn.out.num = (fn.in.sharing - fn.in.shared) * PageSize
             /\ fn.out.den = 2 ^ 20
     /\ fn.out.num >= 0
     /\ fn.out.den > 0

C16_Witness ==
  /\ fn.op = "estimateSavedMiB"
  /\ fn.done
  /\ fn.in.shared = 2
  /\ fn.in.sharing = 5
  /\ fn.out.num = 3 * PageSize

\* C17: the dirty-index sequence of a workload with id, T pages and dirty
\* fraction p has floor(T * p / 100) entries, entry j is
\* (id * 1315423911 + j * 2654435761) mod T, within 0..T-1.
C17_DirtyIndexSequence ==
  (fn.op = "dirtyIndices" /\ fn.done)
  => LET T == (fn.in.memMiB * MiB) \div PageSize
         c1 == MixId % T
         c2 == ((MixJHi % T) * (Limb % T) + MixJLo) % T
     IN /\ Len(fn.out) = (T * fn.in.pct) \div 10000
        /\ \A n \in 1..Len(fn.out) :
             /\ fn.out[n] = (fn.in.id * c1 + (n - 1) * c2) % T
             /\ fn.out[n] \in 0..(T - 1)

\* C18: parseScale returns a sequence exactly for the texts "min..max" and
\* "min..max..step" (step 1 when left out) of whole numbers with min > 0,
\* max >= min and step > 0; the sequence starts at min, goes up by step and
\* holds all such values <= max; for every other text it returns an error
\* and no sequence.
C18_ScaleIsTheRange ==
  (fn.op = "parseScale" /\ fn.done)
  => LET parts == Split(fn.in)
         num(n) == Atoi(TrimSpace(parts[n]))
         by == IF Len(parts) = 3 THEN num(3).val ELSE Small(1)
         plus(a, b) == [w |-> a.w + b.w, off |-> a.off + b.off]
         valid ==
           /\ Len(parts) \in {2, 3}
           /\ \A n \in 1..Len(parts) : ~num(n).err
           /\ ~Leq(num(1).val, Small(0))
           /\ Leq(num(1).val, num(2).val)
           /\ ~Leq(by, Small(0))
         out == fn.out
     IN /\ ~valid => (fn.kind = "error" /\ out = <<>>)
        /\ valid =>
             /\ fn.kind = "ok"
             /\ out # <<>>
             /\ out[1] = num(1).val
             /\ \A n \in 1..(Len(out) - 1) : out[n + 1] = plus(out[n], by)
             /\ Leq(out[Len(out)], num(2).val)
             /\ ~Leq(plus(out[Len(out)], by), num(2).val)

\* C19: when Run has gone through the step loop and one of its two artifacts
\* could not be written, Run returns a non-nil error together with the result
\* holding every recorded step.
C19_WriteFailureSurfaces ==
  (pc = "done" /\ "outdir" \in fs /\ ~({"json", "md"} \subseteq fs))
  => /\ err # "nil"
     /\ ~res.isNil

C21_SuspensionsRespectCancel ==
  [][/\ (pc = "warmup" /\ sel = "ctx" /\ pc' # pc) =>
          (pc' = "stop_term" /\ ret' = "cancel_ret")
     /\ (pc = "stop_poll" /\ ctxDone) => elapsed' = elapsed]_vars

\* C22: stopHogs sends SIGTERM to every handle before it polls or kills
\* (while it polls, every running workload of the batch has the signal),
\* it kills only after the poll loop, and once every workload of the batch
\* has exited the poll loop takes no further sleep.
C22_PollEndsWhenAllStopped ==
  [][LET started == {j \in 1..Len(cmds) : ~Skipped(cmds[j])} IN
     /\ pc = "stop_poll" =>
          \A j \in started :
            procs[cmds[j].pid].st = "running" => procs[cmds[j].pid].term
     /\ (pc = "stop_poll" /\ pc' # pc) => pc' = "stop_kill"
     /\ (pc' = "stop_kill" /\ pc # pc') => pc \in {"stop_poll", "stop_wait"}
     /\ (/\ pc = "stop_poll"
         /\ \A j \in started : procs[cmds[j].pid].st # "running")
          => elapsed' = elapsed]_vars

\* C23: the marker of applyDirty differs between two consecutive cycles of
\* one workload, and between two workloads of one batch with distinct ids
\* at the same page index, whatever their counters are.
C23_MarkersAreDistinct ==
  (fn.op = "marker" /\ fn.done) =>
    /\ fn.prev1 # <<>> => fn.v1 # fn.prev1
    /\ fn.id1 # fn.id2 => fn.v1 # fn.v2

\* C23 as amended: the marker differs between two consecutive cycles of one
\* workload (also when the counter wraps), and between two workloads of one
\* batch with distinct ids at the same page index as long as both counters
\* are below 2^32.
C23_MarkersDistinctBelow32 ==
  (fn.op = "marker" /\ fn.done) =>
    /\ fn.prev1 # <<>> => fn.v1 # fn.prev1
    /\ (/\ fn.id1 # fn.id2
        /\ fn.c1[1] = 0 /\ fn.c1[2] = 0
        /\ fn.c2[1] = 0 /\ fn.c2[2] = 0) => fn.v1 # fn.v2

C23_Witness ==
  /\ fn.op = "marker"
  /\ fn.done
  /\ fn.prev1 # <<>>
  /\ fn.id1 = 1
  /\ fn.id2 = 0
  /\ fn.c1 = U64(1)
  /\ fn.c2 = U64(2)
  /\ fn.v1 = <<0, XorBits(1, MarkHi, 16), MarkMid, MarkLo + 1>>

\* C24: applyDirty changes only the first 8 bytes of the pages of the
\* dirty-index sequence: every byte written over the template fill lies
\* inside the buffer at an offset below 8 of its page, and the pages written
\* to are pages of the sequence, after the initial application and after
\* every re-dirty cycle; with dirty fraction 0 the
\* buffer stays the template fill and no re-dirty cycle runs, whatever
\* --redirty-ms is.
C24_OnlyMarkerBytesChange ==
  hog.pc \notin {"none", "validate", "alloc"} =>
    LET listed == {hog.indices[n] : n \in DOMAIN hog.indices}
        pages == {off \div PageSize : off \in DOMAIN hog.buf}
    IN  /\ \A off \in DOMAIN hog.buf : \A d \in 0..7 :
             /\ off + d < hog.bufMiB * MiB
             /\ (off + d) % PageSize < 8
        /\ pages \cup listed = listed
        /\ (~hog.dirtyPct.nan /\ hog.dirtyPct.v = 0) =>
             /\ hog.buf = <<>>
             /\ hog.counter = 0
             /\ hog.ticker = "nil"

C24_Witness ==
  /\ hog.pc = "wait"
  /\ hog.counter = 2
  /\ hog.dirtyPct.v = 5000
  /\ hog.bufMiB = 1
  /\ Cardinality(DOMAIN hog.buf) = 128
  /\ \A off \in DOMAIN hog.buf : hog.buf[off] = marker(hog.id, U64(2))

\* C25: the tick delta of a StepResult is never negative: the post snapshot
\* sets it to after - before when both tick reads succeeded and
\* after >= before, and leaves it 0 when a read failed or after < before;
\* whatever the reads return, the step gets no note and Run no error.
C25_TickDeltaNeverNegative ==
  /\ [](step.KsmdTicksDelta >= 0 /\
        \A j \in 1..Len(res.Steps) : res.Steps[j].KsmdTicksDelta >= 0)
  /\ [][(pc = "post" /\ pc' # pc) =>
          LET before == ticks'.before
              after == ticks'.after
              consistent == before.ok /\ after.ok /\ after.v >= before.v
          IN  /\ step'.KsmdTicksDelta =
                   IF consistent THEN after.v - before.v ELSE 0
              /\ step'.Notes = ""
              /\ err' = "nil"
              /\ pc' = "stop_term"]_vars

====
